---------------------------- MODULE Spec2Model ----------------------------
(***************************************************************************)
(* OneStep BabyShop backend: cart, checkout, order and payment lifecycle.  *)
(* The database rows (carts' lines, orders, order items, payments) are the *)
(* state; every request handler and model method is one atomic action.     *)
(* Money is counted in whole currency units; a DateTimeField is a clock    *)
(* reading >= 1, and 0 stands for NULL.                                    *)
(***************************************************************************)
EXTENDS Integers, Sequences, FiniteSets, TLC

\* ------------------------------------------------------------- bounds
MaxTime == 2        \* clock readings are 1..MaxTime
MaxQty == 3         \* largest quantity of one cart line
MaxItemId == 2      \* cart line ids handed out: 1..MaxItemId
MaxOrders == 1      \* orders created by checkout
MaxPayments == 2    \* payments created
MaxWebhooks == 2    \* webhooks received
MaxCheckouts == 2   \* checkout requests served at the same time

\* ------------------------------------------------------------- catalog
Users == {"u1", "u2"}
Products == {"p1", "p2"}
NoVariant == "none"
Variants == {"v1"}

\* ProductVariant.product / size / color: size and color are required
\* (non-blank) columns of a variant.
VariantProduct(v) == "p1"
VariantSize(v) == "M"
VariantColor(v) == "Red"

Sizes == {"", "M"}
Colors == {"", "Red"}
Prices == {50, 100}
Adjustments == {0, 10}

NoTime == 0

VARIABLES
    now,          \* timezone.now()
    price,        \* Product.price, per product
    adjust,       \* ProductVariant.price_adjustment, per variant
    carts,        \* per user: the set of CartItem rows of the user's cart
    nextItemId,   \* next CartItem primary key
    orders,       \* sequence of Order rows; the primary key is the index
    orderItems,   \* set of OrderItem rows
    payments,     \* sequence of Payment rows; the primary key is the index
    webhooks,     \* sequence of PaymentWebhook rows
    checkouts,    \* per checkout request being served step by step: where it is
    last          \* the last request: what was asked and its outcome

vars == <<now, price, adjust, carts, nextItemId, orders, orderItems, payments, webhooks,
          checkouts, last>>

\* ------------------------------------------------------------- helpers
Max(a, b) == IF a >= b THEN a ELSE b

RECURSIVE SumOver(_, _)
\* sum(f(x) for x in S) with f given as a function over S
SumOver(S, f) ==
    IF S = {} THEN 0
    ELSE LET x == CHOOSE y \in S : TRUE
         IN  f[x] + SumOver(S \ {x}, f)

NoKey == [product |-> "", variant |-> "", size |-> "", color |-> ""]

\* The request record kept in `last`: what was asked and how it ended. Every field
\* has one type; `created` tells an insert from an update, `again` a repeated
\* request: an add_item right after the same successful add_item, a
\* mark_as_successful of a payment that has its paid_at; `args` are the text
\* arguments of a model-method call; `sid`, `bid` and `same` the address ids and
\* the billing_same_as_shipping flag of a checkout request.
Req(op, ok) ==
    [op |-> op, ok |-> ok, user |-> "", oid |-> 0, pid |-> 0, iid |-> 0,
     st |-> "", q |-> 0, key |-> NoKey, ret |-> 0, amount |-> 0, args |-> <<>>,
     sid |-> 0, bid |-> 0, same |-> FALSE, created |-> FALSE, again |-> FALSE]

\* ------------------------------------------------------------- cart
\* CartItem.unit_price
unit_price(l) ==
    IF l.variant # NoVariant
    THEN price[l.product] + adjust[l.variant]   \* ProductVariant.current_price
    ELSE price[l.product]

\* Cart.total_items
total_items(u) == SumOver(carts[u], [l \in carts[u] |-> l.quantity])

\* CartItem.save writing the quantity as it is
CartItemSave_no_floor(l) ==
    [l EXCEPT
        !.size = IF l.variant # NoVariant /\ l.size = "" THEN VariantSize(l.variant) ELSE @,
        !.color = IF l.variant # NoVariant /\ l.color = "" THEN VariantColor(l.variant) ELSE @]

\* The field normalisation at the head of CartItem.save.
CartItemSave(l) ==
    [l EXCEPT
        !.size = IF l.variant # NoVariant /\ l.size = "" THEN VariantSize(l.variant) ELSE @,
        !.color = IF l.variant # NoVariant /\ l.color = "" THEN VariantColor(l.variant) ELSE @,
        !.quantity = IF @ < 1 THEN 1 ELSE @]

\* unique_together (cart, product, variant, size, color): the database refuses a
\* row equal to another one of the cart in all four columns; a NULL variant never
\* compares equal.
UniqueViolation(lines, l) ==
    /\ l.variant # NoVariant
    /\ \E m \in lines :
          /\ m.id # l.id
          /\ m.product = l.product /\ m.variant = l.variant
          /\ m.size = l.size /\ m.color = l.color

\* self.items.filter(product, variant, size, color)
Matching(lines, p, v, s, c) ==
    {l \in lines : l.product = p /\ l.variant = v /\ l.size = s /\ l.color = c}

\* .first() under ordering -added_at: the row added last
First(S) == CHOOSE l \in S : \A m \in S : m.id <= l.id

LineById(lines, id) == CHOOSE l \in lines : l.id = id

\* Cart.add_item(product, quantity, variant, size, color)
add_item(u, p, q, v, s, c) ==
    LET lines == carts[u]
        found == Matching(lines, p, v, s, c)
        key   == [product |-> p, variant |-> v, size |-> s, color |-> c]
        again == last.op = "add_item" /\ last.ok /\ last.user = u /\ last.key = key
        req   == [Req("add_item", TRUE) EXCEPT !.user = u, !.q = q, !.key = key,
                                               !.again = again]
    IN
    IF found # {}
    THEN LET old == First(found)
             new == CartItemSave([old EXCEPT !.quantity = @ + q])
         IN  /\ new.quantity <= MaxQty
             /\ carts' = [carts EXCEPT ![u] = (lines \ {old}) \cup {new}]
             /\ nextItemId' = nextItemId
             /\ last' = [req EXCEPT !.ret = new.id, !.iid = new.id]
    ELSE LET new == CartItemSave([id |-> nextItemId, product |-> p, variant |-> v,
                                  size |-> s, color |-> c, quantity |-> q])
         IN  /\ nextItemId <= MaxItemId
             /\ IF UniqueViolation(lines, new)
                THEN \* IntegrityError: nothing is inserted
                     /\ UNCHANGED <<carts, nextItemId>>
                     /\ last' = [req EXCEPT !.ok = FALSE]
                ELSE /\ carts' = [carts EXCEPT ![u] = lines \cup {new}]
                     /\ nextItemId' = nextItemId + 1
                     /\ last' = [req EXCEPT !.ret = new.id, !.iid = new.id, !.created = TRUE]

AddItem(u, p, q, v, s, c) ==
    /\ add_item(u, p, q, v, s, c)
    /\ UNCHANGED <<now, price, adjust, orders, orderItems, payments, webhooks, checkouts>>

\* update_item_quantity saving a quantity <= 0 (which CartItem.save raises to 1)
\* instead of deleting the line
update_item_quantity_keeps_line(u, id, q) ==
    LET lines == carts[u]
        req   == [Req("update_item_quantity", TRUE) EXCEPT !.user = u, !.q = q, !.iid = id]
    IN
    IF \E l \in lines : l.id = id
    THEN LET old == LineById(lines, id)
             new == CartItemSave([old EXCEPT !.quantity = q])
         IN  /\ carts' = [carts EXCEPT ![u] = (lines \ {old}) \cup {new}]
             /\ last' = [req EXCEPT !.ret = id]
    ELSE /\ UNCHANGED carts
         /\ last' = [req EXCEPT !.ok = FALSE]

\* Cart.update_item_quantity(item_id, quantity)
update_item_quantity(u, id, q) ==
    LET lines == carts[u]
        req   == [Req("update_item_quantity", TRUE) EXCEPT !.user = u, !.q = q, !.iid = id]
    IN
    IF \E l \in lines : l.id = id
    THEN LET old == LineById(lines, id)
         IN  IF q <= 0
             THEN /\ carts' = [carts EXCEPT ![u] = lines \ {old}]
                  /\ last' = req
             ELSE LET new == CartItemSave([old EXCEPT !.quantity = q])
                  IN  /\ carts' = [carts EXCEPT ![u] = (lines \ {old}) \cup {new}]
                      /\ last' = [req EXCEPT !.ret = id]
    ELSE \* CartItem.DoesNotExist
         /\ UNCHANGED carts
         /\ last' = [req EXCEPT !.ok = FALSE]

UpdateItemQuantity(u, id, q) ==
    /\ update_item_quantity(u, id, q)
    /\ UNCHANGED <<now, price, adjust, nextItemId, orders, orderItems, payments,
                   webhooks, checkouts>>

\* Cart.remove_item(item_id)
RemoveItem(u, id) ==
    LET lines == carts[u]
        found == \E l \in lines : l.id = id
    IN  /\ carts' = [carts EXCEPT ![u] = {l \in lines : l.id # id}]
        /\ last' = [Req("remove_item", found) EXCEPT !.user = u, !.iid = id]
        /\ UNCHANGED <<now, price, adjust, nextItemId, orders, orderItems, payments,
                       webhooks, checkouts>>

\* Cart.clear()
clear(u) == carts' = [carts EXCEPT ![u] = {}]

ClearCart(u) ==
    /\ carts[u] # {}
    /\ clear(u)
    /\ last' = [Req("clear", TRUE) EXCEPT !.user = u]
    /\ UNCHANGED <<now, price, adjust, nextItemId, orders, orderItems, payments,
                   webhooks, checkouts>>

\* CartItem.increase_quantity(amount)
IncreaseQuantity(u, id, amount) ==
    /\ \E l \in carts[u] : l.id = id
    /\ LET old == LineById(carts[u], id)
           new == CartItemSave([old EXCEPT !.quantity = @ + amount])
       IN  /\ new.quantity <= MaxQty
           /\ carts' = [carts EXCEPT ![u] = (@ \ {old}) \cup {new}]
           /\ last' = [Req("increase_quantity", TRUE) EXCEPT !.user = u, !.iid = id,
                                                          !.q = amount, !.ret = id]
    /\ UNCHANGED <<now, price, adjust, nextItemId, orders, orderItems, payments,
                   webhooks, checkouts>>

\* CartItem.decrease_quantity(amount)
DecreaseQuantity(u, id, amount) ==
    /\ \E l \in carts[u] : l.id = id
    /\ LET old == LineById(carts[u], id)
           new == CartItemSave([old EXCEPT !.quantity = Max(1, @ - amount)])
       IN  /\ new.quantity <= MaxQty
           /\ carts' = [carts EXCEPT ![u] = (@ \ {old}) \cup {new}]
           /\ last' = [Req("decrease_quantity", TRUE) EXCEPT !.user = u, !.iid = id,
                                                          !.q = amount, !.ret = id]
    /\ UNCHANGED <<now, price, adjust, nextItemId, orders, orderItems, payments,
                   webhooks, checkouts>>

\* ------------------------------------------------------------- addresses
\* The users' saved addresses (UserAddress rows): owner, county, default flag.
Addresses == {1, 2, 3}
NoAddress == 0
AddressUser(a) == IF a = 3 THEN "u2" ELSE "u1"
AddressCounty(a) == IF a = 1 THEN "Nairobi" ELSE IF a = 2 THEN "Mombasa" ELSE "Kisumu"
IsDefaultShipping(a) == a = 1

\* a comparison of county names that keeps the case
Lower_keeps_case(s) == s

\* str.lower() on the county names in use
Lower(s) ==
    CASE s = "Nairobi" -> "nairobi"
      [] s = "Mombasa" -> "mombasa"
      [] s = "Kisumu"  -> "kisumu"
      [] OTHER         -> s

\* User.get_default_shipping_address(): NoAddress when the user has none
get_default_shipping_address(u) ==
    IF \E a \in Addresses : AddressUser(a) = u /\ IsDefaultShipping(a)
    THEN CHOOSE a \in Addresses : AddressUser(a) = u /\ IsDefaultShipping(a)
    ELSE NoAddress

\* ------------------------------------------------------------- orders
OrderStatuses == {"draft", "pending", "confirmed", "processing", "shipped",
                  "delivered", "cancelled", "refunded"}
OrderPaymentStatuses == {"pending", "authorized", "paid", "partially_paid",
                         "refunded", "failed"}
ShippingMethods == {"store_pickup", "nairobi_only", "other_towns"}

OrderIds == 1..Len(orders)
ItemsOf(items, oid) == {i \in items : i.order = oid}

\* calculate_totals leaving the discount out of total_amount
calculate_totals_no_discount(o, oid, items) ==
    LET mine     == ItemsOf(items, oid)
        subtotal == SumOver(mine, [i \in mine |-> i.total_price])
    IN  [o EXCEPT !.subtotal = subtotal,
                  !.total_amount = subtotal + o.shipping_cost + o.tax_amount
                                   + o.gift_wrapping_fee]

\* Order.calculate_totals() of a persisted order, over the OrderItem rows `items`
calculate_totals(o, oid, items) ==
    LET mine     == ItemsOf(items, oid)
        subtotal == SumOver(mine, [i \in mine |-> i.total_price])
    IN  [o EXCEPT !.subtotal = subtotal,
                  !.total_amount = subtotal + o.shipping_cost + o.tax_amount
                                   + o.gift_wrapping_fee - o.discount_amount]

\* The stage timestamps of Order.save: the stage of the current status is stamped
\* when it has no timestamp yet.
StampStatus(o, t) ==
    CASE o.status = "confirmed"  /\ o.confirmed_at = NoTime -> [o EXCEPT !.confirmed_at = t]
      [] o.status = "processing" /\ o.processed_at = NoTime -> [o EXCEPT !.processed_at = t]
      [] o.status = "shipped"    /\ o.shipped_at = NoTime   -> [o EXCEPT !.shipped_at = t]
      [] o.status = "delivered"  /\ o.delivered_at = NoTime -> [o EXCEPT !.delivered_at = t]
      [] o.status = "cancelled"  /\ o.cancelled_at = NoTime -> [o EXCEPT !.cancelled_at = t]
      [] OTHER -> o

\* Order.save() of the in-memory order o: `persisted` is self.pk being set, `items`
\* the OrderItem rows in the database, t the clock. The result is the row written.
OrderSave(o, oid, persisted, items, t) ==
    LET o1 == IF persisted THEN calculate_totals(o, oid, items) ELSE o
        o2 == IF o1.billing_same_as_shipping /\ persisted
              THEN [o1 EXCEPT !.billing_address = o1.shipping_address]
              ELSE o1
    IN  StampStatus(o2, t)

\* can_be_cancelled refusing an order in processing
can_be_cancelled_before_processing(o) == o.status \in {"pending", "confirmed"}

\* Order.can_be_cancelled()
can_be_cancelled(o) == o.status \in {"pending", "confirmed", "processing"}

\* Order.mark_as_paid(payment_method, reference), at clock t
mark_as_paid(o, oid, payment_method, reference, items, t) ==
    OrderSave([o EXCEPT !.payment_status = "paid",
                        !.payment_method = payment_method,
                        !.payment_reference = reference,
                        !.payment_date = t,
                        !.status = "confirmed"],
              oid, TRUE, items, t)

\* OrderItem.save taking the unit price as the line total
OrderItemSave_unit_total(i) ==
    [i EXCEPT
        !.size = IF i.variant # NoVariant /\ i.size = "" THEN VariantSize(i.variant) ELSE @,
        !.color = IF i.variant # NoVariant /\ i.color = "" THEN VariantColor(i.variant) ELSE @,
        !.total_price = i.unit_price]

\* OrderItem.save reading the unit price from the catalog again
OrderItemSave_reprices(i) ==
    [i EXCEPT
        !.size = IF i.variant # NoVariant /\ i.size = "" THEN VariantSize(i.variant) ELSE @,
        !.color = IF i.variant # NoVariant /\ i.color = "" THEN VariantColor(i.variant) ELSE @,
        !.unit_price = unit_price(i),
        !.total_price = unit_price(i) * i.quantity]

\* OrderItem.save(): the snapshot of the variant's size and colour and the line
\* total. (The parent order is recomputed and saved by the caller below.)
OrderItemSave(i) ==
    [i EXCEPT
        !.size = IF i.variant # NoVariant /\ i.size = "" THEN VariantSize(i.variant) ELSE @,
        !.color = IF i.variant # NoVariant /\ i.color = "" THEN VariantColor(i.variant) ELSE @,
        !.total_price = i.unit_price * i.quantity]

\* A new Order as Order.objects.create builds it in CheckoutView.create: the column
\* defaults and the request's fields.
NewOrder(u, shipping_method, payment_method, gift_wrapping, same) ==
    [user |-> u, status |-> "pending", payment_status |-> "pending",
     payment_method |-> payment_method, payment_reference |-> 0, payment_date |-> NoTime,
     shipping_method |-> shipping_method,
     subtotal |-> 0, shipping_cost |-> 0, tax_amount |-> 0, discount_amount |-> 0,
     gift_wrapping_fee |-> 0, total_amount |-> 0, gift_wrapping |-> gift_wrapping,
     billing_same_as_shipping |-> same,
     shipping_address |-> NoAddress, billing_address |-> NoAddress,
     confirmed_at |-> NoTime, processed_at |-> NoTime, shipped_at |-> NoTime,
     delivered_at |-> NoTime, cancelled_at |-> NoTime]

\* an address id of another user falling back to the default address
ResolveShipping_fallback(u, sid) ==
    IF sid \in Addresses /\ AddressUser(sid) = u THEN sid ELSE get_default_shipping_address(u)

\* CheckoutSerializer.validate: the resolved shipping address, or NoAddress when the
\* request is rejected.
ResolveShipping(u, sid) ==
    IF sid # NoAddress
    THEN IF sid \in Addresses /\ AddressUser(sid) = u THEN sid ELSE NoAddress
    ELSE get_default_shipping_address(u)

\* CheckoutSerializer: does the request pass? shipping_method is a ChoiceField over
\* Order.SHIPPING_METHOD_CHOICES; "" is a request without the field.
CheckoutValid(u, sid, bid, same, method) ==
    LET ship == ResolveShipping(u, sid)
    IN  /\ method \in ShippingMethods \cup {""}
        /\ ship # NoAddress
        /\ (~same /\ bid # NoAddress) => (bid \in Addresses /\ AddressUser(bid) = u)
        /\ ~(method = "nairobi_only" /\ Lower(AddressCounty(ship)) # "nairobi")
        /\ ~(method = "other_towns" /\ Lower(AddressCounty(ship)) = "nairobi")

RECURSIVE CopyLines(_, _, _, _, _)
\* The loop of CheckoutView.create over cart.items.all(): one OrderItem per cart
\* line, each OrderItem.save recomputing and saving the order. Returns the order as
\* it is in memory after the loop and the OrderItem rows.
CopyLines(o, oid, lines, items, t) ==
    IF lines = {}
    THEN [order |-> o, items |-> items]
    ELSE LET l    == First(lines)
             item == OrderItemSave(
                        [id |-> Cardinality(items) + 1, order |-> oid,
                         product |-> l.product, variant |-> l.variant,
                         size |-> l.size, color |-> l.color,
                         unit_price |-> unit_price(l), quantity |-> l.quantity,
                         total_price |-> 0])
             items2 == items \cup {item}
             o2   == OrderSave(calculate_totals(o, oid, items2), oid, TRUE, items2, t)
         IN  CopyLines(o2, oid, lines \ {l}, items2, t)

\* CheckoutView.create; a request without shipping_method gets the serializer's
\* default 'standard'.
Checkout(u, sid, bid, same, method, payment_method, gift) ==
    LET req == [Req("checkout", TRUE) EXCEPT !.user = u, !.st = method, !.sid = sid,
                                             !.bid = bid, !.same = same]
    IN
    /\ Len(orders) < MaxOrders
    /\ IF ~CheckoutValid(u, sid, bid, same, method) \/ total_items(u) = 0
       THEN \* 400: validation error, or "Your cart is empty."
            /\ UNCHANGED <<carts, orders, orderItems>>
            /\ last' = [req EXCEPT !.ok = FALSE]
       ELSE LET oid  == Len(orders) + 1
                o0   == OrderSave(NewOrder(u, IF method = "" THEN "standard" ELSE method,
                                           payment_method, gift, same),
                                  oid, FALSE, orderItems, now)
                o1   == [o0 EXCEPT !.shipping_address = ResolveShipping(u, sid)]
                o2   == IF ~same /\ bid # NoAddress
                        THEN [o1 EXCEPT !.billing_address = bid]
                        ELSE o1
                done == CopyLines(o2, oid, carts[u], orderItems, now)
                o3   == OrderSave(calculate_totals(done.order, oid, done.items),
                                  oid, TRUE, done.items, now)
            IN  /\ orders' = Append(orders, o3)
                /\ orderItems' = done.items
                /\ clear(u)
                /\ last' = [req EXCEPT !.oid = oid, !.ret = oid, !.q = Cardinality(carts[u])]
    /\ UNCHANGED <<now, price, adjust, nextItemId, payments, webhooks, checkouts>>

\* OrderCreateSerializer.validate with validate_shipping_address_ref: an address id
\* must be the user's; the county checked is that of the address given, else of the
\* user's default address, and nothing is checked when there is neither.
OrderCreateValid(u, sid, method) ==
    LET ship == IF sid # NoAddress THEN sid ELSE get_default_shipping_address(u)
    IN  /\ method \in ShippingMethods \cup {""}
        /\ sid # NoAddress => (sid \in Addresses /\ AddressUser(sid) = u)
        /\ ship # NoAddress =>
              /\ ~(method = "nairobi_only" /\ Lower(AddressCounty(ship)) # "nairobi")
              /\ ~(method = "other_towns" /\ Lower(AddressCounty(ship)) = "nairobi")

\* OrderCreateView.create with OrderCreateSerializer.create, for a request with one
\* item (product, variant, quantity, size, color): the item is priced at the
\* product's price, and the user's cart is cleared afterwards.
OrderCreate(u, sid, method, payment_method, p, v, q, s, c) ==
    LET req == [Req("order_create", TRUE) EXCEPT
                   !.user = u, !.st = method, !.sid = sid, !.q = q,
                   !.key = [product |-> p, variant |-> v, size |-> s, color |-> c]]
    IN
    /\ Len(orders) < MaxOrders
    /\ IF ~OrderCreateValid(u, sid, method)
       THEN /\ UNCHANGED <<carts, orders, orderItems>>
            /\ last' = [req EXCEPT !.ok = FALSE]
       ELSE LET oid    == Len(orders) + 1
                ship   == IF sid # NoAddress THEN sid ELSE get_default_shipping_address(u)
                o0     == OrderSave(NewOrder(u, IF method = "" THEN "standard" ELSE method,
                                             payment_method, FALSE, TRUE),
                                    oid, FALSE, orderItems, now)
                o1     == [o0 EXCEPT !.shipping_address = ship]
                item   == OrderItemSave(
                             [id |-> Cardinality(orderItems) + 1, order |-> oid,
                              product |-> p, variant |-> v, size |-> s, color |-> c,
                              unit_price |-> price[p], quantity |-> q, total_price |-> 0])
                items2 == orderItems \cup {item}
                o2     == OrderSave(calculate_totals(o1, oid, items2), oid, TRUE, items2, now)
                o3     == OrderSave(calculate_totals(o2, oid, items2), oid, TRUE, items2, now)
            IN  /\ orders' = Append(orders, o3)
                /\ orderItems' = items2
                /\ clear(u)
                /\ last' = [req EXCEPT !.oid = oid, !.ret = oid]
    /\ UNCHANGED <<now, price, adjust, nextItemId, payments, webhooks, checkouts>>

\* ------------------------------------------------------------- order requests
\* allowed_transitions with shipped -> cancelled let through
OrderAllowedTransitions_shipped_cancel(s) ==
    CASE s = "pending"    -> {"confirmed", "cancelled"}
      [] s = "confirmed"  -> {"processing", "cancelled"}
      [] s = "processing" -> {"shipped", "cancelled"}
      [] s = "shipped"    -> {"delivered", "cancelled"}
      [] s = "delivered"  -> {"refunded"}
      [] OTHER            -> {}

\* allowed_transitions of OrderStatusUpdateSerializer.validate_status
OrderAllowedTransitions(s) ==
    CASE s = "pending"    -> {"confirmed", "cancelled"}
      [] s = "confirmed"  -> {"processing", "cancelled"}
      [] s = "processing" -> {"shipped", "cancelled"}
      [] s = "shipped"    -> {"delivered"}
      [] s = "delivered"  -> {"refunded"}
      [] s = "cancelled"  -> {}
      [] s = "refunded"   -> {}
      [] OTHER            -> {}

\* OrderStatusUpdateSerializer.validate_status(value) on the order o
OrderStatusUpdateValid(o, value) == value \in OrderAllowedTransitions(o.status)

\* OrderStatusUpdateView.update: PATCH {status: value}; value "" is a request that
\* leaves the status field out (the update is partial).
OrderStatusUpdate(oid, value) ==
    /\ oid \in OrderIds
    /\ LET o   == orders[oid]
           req == [Req("order_status_update", TRUE) EXCEPT !.oid = oid, !.st = value]
       IN  IF value # "" /\ ~OrderStatusUpdateValid(o, value)
           THEN /\ UNCHANGED orders
                /\ last' = [req EXCEPT !.ok = FALSE]
           ELSE /\ orders' = [orders EXCEPT ![oid] =
                                OrderSave(IF value = "" THEN o ELSE [o EXCEPT !.status = value],
                                          oid, TRUE, orderItems, now)]
                /\ last' = req
    /\ UNCHANGED <<now, price, adjust, carts, nextItemId, orderItems, payments,
                   webhooks, checkouts>>

\* validate_status letting a delivered order be rewritten
OrderUpdateValid_delivered_open(o, value) == o.status \notin {"cancelled", "refunded"}

\* OrderUpdateSerializer.validate_status(value) on the order o
OrderUpdateValid(o, value) == o.status \notin {"delivered", "cancelled", "refunded"}

\* OrderUpdateView.update: PATCH {status, payment_status, ...}; "" is a field left out.
OrderUpdate(oid, value, pay) ==
    /\ oid \in OrderIds
    /\ LET o   == orders[oid]
           req == [Req("order_update", TRUE) EXCEPT !.oid = oid, !.st = value]
           o1  == IF value = "" THEN o ELSE [o EXCEPT !.status = value]
           o2  == IF pay = "" THEN o1 ELSE [o1 EXCEPT !.payment_status = pay]
       IN  IF value # "" /\ ~OrderUpdateValid(o, value)
           THEN /\ UNCHANGED orders
                /\ last' = [req EXCEPT !.ok = FALSE]
           ELSE /\ orders' = [orders EXCEPT ![oid] = OrderSave(o2, oid, TRUE, orderItems, now)]
                /\ last' = req
    /\ UNCHANGED <<now, price, adjust, carts, nextItemId, orderItems, payments,
                   webhooks, checkouts>>

\* allowed_transitions of OrderPaymentUpdateSerializer.validate_payment_status
OrderPaymentAllowedTransitions(s) ==
    CASE s = "pending"        -> {"authorized", "paid", "failed", "cancelled"}
      [] s = "authorized"     -> {"paid", "failed", "cancelled"}
      [] s = "paid"           -> {"refunded", "partially_paid"}
      [] s = "partially_paid" -> {"paid", "refunded"}
      [] s = "failed"         -> {"pending"}
      [] OTHER                -> {}

\* OrderPaymentUpdateSerializer on the order o: payment_status is a choice of
\* Order.PAYMENT_STATUS_CHOICES allowed from the current one, and marking as paid
\* needs a payment reference. "" and 0 are fields left out.
OrderPaymentUpdateValid(o, pay, reference) ==
    /\ pay # "" => /\ pay \in OrderPaymentStatuses
                   /\ pay \in OrderPaymentAllowedTransitions(o.payment_status)
    /\ pay = "paid" => reference # 0

\* OrderPaymentUpdateView.update: PATCH {payment_status, payment_reference}
OrderPaymentUpdate(oid, pay, reference) ==
    /\ oid \in OrderIds
    /\ LET o   == orders[oid]
           req == [Req("order_payment_update", TRUE) EXCEPT !.oid = oid, !.st = pay,
                                                           !.amount = reference]
           o1  == IF pay = "" THEN o ELSE [o EXCEPT !.payment_status = pay]
           o2  == IF reference = 0 THEN o1 ELSE [o1 EXCEPT !.payment_reference = reference]
           o3  == IF pay = "paid" THEN [o2 EXCEPT !.payment_date = now] ELSE o2
       IN  IF ~OrderPaymentUpdateValid(o, pay, reference)
           THEN /\ UNCHANGED orders
                /\ last' = [req EXCEPT !.ok = FALSE]
           ELSE /\ orders' = [orders EXCEPT ![oid] = OrderSave(o3, oid, TRUE, orderItems, now)]
                /\ last' = req
    /\ UNCHANGED <<now, price, adjust, carts, nextItemId, orderItems, payments, webhooks,
                   checkouts>>

\* OrderCancelView.get_queryset: the orders a cancel request of user u can see
CancelQueryset(u) ==
    {oid \in OrderIds : orders[oid].user = u
                        /\ orders[oid].status \in {"pending", "confirmed", "processing"}}

\* OrderCancelView.post
OrderCancel(u, oid) ==
    /\ oid \in OrderIds
    /\ LET o   == orders[oid]
           req == [Req("order_cancel", TRUE) EXCEPT !.oid = oid, !.user = u]
       IN  IF oid \notin CancelQueryset(u) \/ ~can_be_cancelled(o)
           THEN \* not found (answered 500 by the handler's except), or 400
                /\ UNCHANGED orders
                /\ last' = [req EXCEPT !.ok = FALSE]
           ELSE /\ orders' = [orders EXCEPT ![oid] =
                                OrderSave([o EXCEPT !.status = "cancelled", !.cancelled_at = now],
                                          oid, TRUE, orderItems, now)]
                /\ last' = req
    /\ UNCHANGED <<now, price, adjust, carts, nextItemId, orderItems, payments,
                   webhooks, checkouts>>

\* The charges a staff member can type into the order's change form.
ChargeSets == {[shipping_cost |-> 0,  tax_amount |-> 0, discount_amount |-> 0,  gift_wrapping_fee |-> 0],
               [shipping_cost |-> 20, tax_amount |-> 0, discount_amount |-> 0,  gift_wrapping_fee |-> 0],
               [shipping_cost |-> 20, tax_amount |-> 8, discount_amount |-> 10, gift_wrapping_fee |-> 5]}

\* OrderAdmin change form: the charges are editable fields; the form saves the order.
AdminEditOrder(oid, ch) ==
    /\ oid \in OrderIds
    /\ LET o == orders[oid]
           e == [o EXCEPT !.shipping_cost = ch.shipping_cost, !.tax_amount = ch.tax_amount,
                          !.discount_amount = ch.discount_amount,
                          !.gift_wrapping_fee = ch.gift_wrapping_fee]
       IN  orders' = [orders EXCEPT ![oid] = OrderSave(e, oid, TRUE, orderItems, now)]
    /\ last' = [Req("admin_edit_order", TRUE) EXCEPT !.oid = oid, !.amount = ch.shipping_cost]
    /\ UNCHANGED <<now, price, adjust, carts, nextItemId, orderItems, payments,
                   webhooks, checkouts>>

\* OrderItemAdmin change form: quantity is editable (unit_price is read-only);
\* OrderItem.save recomputes the line total, then the order's totals, and saves both.
AdminEditOrderItem(iid, q) ==
    /\ \E i \in orderItems : i.id = iid
    /\ LET old   == CHOOSE i \in orderItems : i.id = iid
           new   == OrderItemSave([old EXCEPT !.quantity = q])
           items == (orderItems \ {old}) \cup {new}
           oid   == old.order
       IN  /\ orderItems' = items
           /\ orders' = [orders EXCEPT ![oid] =
                           OrderSave(calculate_totals(orders[oid], oid, items),
                                     oid, TRUE, items, now)]
           /\ last' = [Req("admin_edit_order_item", TRUE) EXCEPT !.oid = oid, !.iid = iid, !.q = q]
    /\ UNCHANGED <<now, price, adjust, carts, nextItemId, payments, webhooks, checkouts>>

\* A staff member edits the catalog: Product.price.
SetPrice(p, x) ==
    /\ price[p] # x
    /\ price' = [price EXCEPT ![p] = x]
    /\ last' = [Req("set_price", TRUE) EXCEPT !.amount = x]
    /\ UNCHANGED <<now, adjust, carts, nextItemId, orders, orderItems, payments,
                   webhooks, checkouts>>

\* A staff member edits the catalog: ProductVariant.price_adjustment.
SetAdjust(v, x) ==
    /\ adjust[v] # x
    /\ adjust' = [adjust EXCEPT ![v] = x]
    /\ last' = [Req("set_adjust", TRUE) EXCEPT !.amount = x]
    /\ UNCHANGED <<now, price, carts, nextItemId, orders, orderItems, payments,
                   webhooks, checkouts>>

\* Time passes between two requests.
Tick ==
    /\ now < MaxTime
    /\ now' = now + 1
    /\ last' = Req("tick", TRUE)
    /\ UNCHANGED <<price, adjust, carts, nextItemId, orders, orderItems, payments,
                   webhooks, checkouts>>

\* ------------------------------------------------------------- payments
PaymentStatuses == {"initiated", "pending", "successful", "failed", "cancelled",
                    "refunded", "partially_refunded"}
MobileGateways == {"mpesa", "airtel_money", "tkash", "equitel"}
Gateways == {"mpesa"}

PaymentIds == 1..Len(payments)

\* The field fixes of Payment.save() before the row is written, at clock t.
PaymentSave(p, persisted, t) ==
    LET p1 == IF ~persisted /\ p.initiated_at = NoTime THEN [p EXCEPT !.initiated_at = t] ELSE p
        p2 == IF p1.user = "" THEN [p1 EXCEPT !.user = orders[p1.order].user] ELSE p1
        p3 == IF p2.status = "successful" /\ p2.paid_at = NoTime
              THEN [p2 EXCEPT !.paid_at = t] ELSE p2
        p4 == IF p3.status = "successful" /\ p3.gateway_reference = ""
              THEN [p3 EXCEPT !.gateway_reference = "AUTO-REF"] ELSE p3
    IN  IF p4.status = "successful" /\ p4.payment_gateway \in MobileGateways
           /\ p4.transaction_code = ""
        THEN [p4 EXCEPT !.transaction_code = "GATEWAY-ID"] ELSE p4

\* _fix_associated_order leaving a pending order pending
_fix_associated_order_keeps_pending(p, o, items, t) ==
    LET o1 == IF o.payment_status # "paid" THEN [o EXCEPT !.payment_status = "paid"] ELSE o
        o2 == IF o1.payment_date = NoTime
              THEN [o1 EXCEPT !.payment_date = IF p.paid_at # NoTime THEN p.paid_at ELSE t]
              ELSE o1
    IN  IF o2 # o THEN OrderSave(o2, p.order, TRUE, items, t) ELSE o

\* Payment._fix_associated_order() for the saved payment p: the order row afterwards.
_fix_associated_order(p, o, items, t) ==
    LET o1 == IF o.payment_status # "paid" THEN [o EXCEPT !.payment_status = "paid"] ELSE o
        o2 == IF o1.payment_date = NoTime
              THEN [o1 EXCEPT !.payment_date = IF p.paid_at # NoTime THEN p.paid_at ELSE t]
              ELSE o1
        o3 == IF o2.status = "pending" THEN [o2 EXCEPT !.status = "confirmed"] ELSE o2
    IN  IF o3 # o THEN OrderSave(o3, p.order, TRUE, items, t) ELSE o

\* Payment.save repairing the order whatever the payment's status
OrderAfterPaymentSave_any_status(p, o, items, t) == _fix_associated_order(p, o, items, t)

\* The tail of Payment.save(): a successful payment repairs its order.
OrderAfterPaymentSave(p, o, items, t) ==
    IF p.status = "successful" THEN _fix_associated_order(p, o, items, t) ELSE o

\* mark_as_successful stamping paid_at on every call
mark_as_successful_restamp(pid, gateway_ref, t, t2) ==
    LET p  == payments[pid]
        p1 == [p EXCEPT !.status = "successful",
                        !.gateway_reference = IF gateway_ref # "" THEN gateway_ref
                                              ELSE IF @ # "" THEN @ ELSE "GW-REF",
                        !.paid_at = t]
        p2 == IF p1.payment_gateway \in MobileGateways /\ p1.transaction_code = ""
              THEN [p1 EXCEPT !.transaction_code = "GATEWAY-ID"] ELSE p1
        p3 == PaymentSave(p2, TRUE, t)
        o1 == OrderAfterPaymentSave(p3, orders[p.order], orderItems, t)
        o2 == mark_as_paid(o1, p.order, p.payment_gateway, pid, orderItems, t2)
    IN  /\ payments' = [payments EXCEPT ![pid] = p3]
        /\ orders' = [orders EXCEPT ![p.order] = o2]

\* Payment.mark_as_successful(gateway_ref): "" is no gateway_ref; the clock reads t
\* up to the payment's save and t2 >= t in Order.mark_as_paid.
mark_as_successful(pid, gateway_ref, t, t2) ==
    LET p  == payments[pid]
        p1 == [p EXCEPT !.status = "successful",
                        !.gateway_reference = IF gateway_ref # "" THEN gateway_ref
                                              ELSE IF @ # "" THEN @ ELSE "GW-REF",
                        !.paid_at = IF @ = NoTime THEN t ELSE @]
        p2 == IF p1.payment_gateway \in MobileGateways /\ p1.transaction_code = ""
              THEN [p1 EXCEPT !.transaction_code = "GATEWAY-ID"] ELSE p1
        p3 == PaymentSave(p2, TRUE, t)
        o1 == OrderAfterPaymentSave(p3, orders[p.order], orderItems, t)
        o2 == mark_as_paid(o1, p.order, p.payment_gateway, pid, orderItems, t2)
    IN  /\ payments' = [payments EXCEPT ![pid] = p3]
        /\ orders' = [orders EXCEPT ![p.order] = o2]

MarkAsSuccessful(pid, gateway_ref, d) ==
    /\ pid \in PaymentIds
    /\ now + d <= MaxTime
    /\ mark_as_successful(pid, gateway_ref, now, now + d)
    /\ now' = now + d
    /\ last' = [Req("mark_as_successful", TRUE) EXCEPT !.pid = pid, !.oid = payments[pid].order,
                                                      !.again = payments[pid].paid_at # NoTime]
    /\ UNCHANGED <<price, adjust, carts, nextItemId, orderItems, webhooks, checkouts>>

\* Payment.mark_as_failed(error_code, error_message, gateway_message)
MarkAsFailed(pid, error_code, error_message, gateway_message) ==
    /\ pid \in PaymentIds
    /\ LET p  == payments[pid]
           p1 == PaymentSave([p EXCEPT !.status = "failed", !.error_code = error_code,
                                       !.error_message = error_message,
                                       !.gateway_message = gateway_message], TRUE, now)
       IN  /\ payments' = [payments EXCEPT ![pid] = p1]
           /\ orders' = [orders EXCEPT ![p.order] =
                           OrderAfterPaymentSave(p1, orders[p.order], orderItems, now)]
    /\ last' = [Req("mark_as_failed", TRUE) EXCEPT !.pid = pid, !.oid = payments[pid].order,
                                                  !.args = <<error_code, error_message,
                                                             gateway_message>>]
    /\ UNCHANGED <<now, price, adjust, carts, nextItemId, orderItems, webhooks, checkouts>>

\* a refund of exactly the payment's amount not counted as full
FullyRefunded_strictly_more(p) == p.refund_amount > p.amount

\* "if self.refund_amount >= self.amount" of Payment.mark_as_refunded
FullyRefunded(p) == p.refund_amount >= p.amount

\* Payment.mark_as_refunded(amount, reference, reason): amount 0 is no amount,
\* reference "" no reference.
MarkAsRefunded(pid, amount, reference, reason) ==
    /\ pid \in PaymentIds
    /\ LET p  == payments[pid]
           p1 == PaymentSave([p EXCEPT !.status = "refunded",
                                       !.refund_amount = IF amount # 0 THEN amount ELSE p.amount,
                                       !.refund_reference = IF reference # "" THEN reference
                                                            ELSE "REF",
                                       !.refund_reason = reason,
                                       !.refunded_at = now], TRUE, now)
           o1 == OrderAfterPaymentSave(p1, orders[p.order], orderItems, now)
           o2 == IF FullyRefunded(p1)
                 THEN OrderSave([o1 EXCEPT !.status = "refunded"], p.order, TRUE, orderItems, now)
                 ELSE o1
       IN  /\ payments' = [payments EXCEPT ![pid] = p1]
           /\ orders' = [orders EXCEPT ![p.order] = o2]
    /\ last' = [Req("mark_as_refunded", TRUE) EXCEPT !.pid = pid, !.oid = payments[pid].order,
                                                    !.amount = amount,
                                                    !.args = <<reference, reason>>]
    /\ UNCHANGED <<now, price, adjust, carts, nextItemId, orderItems, webhooks, checkouts>>

\* the answer of can_be_refunded not looking at the status
Refundable_any_status(p) == p.paid_at # NoTime

\* "return self.status == 'successful' and self.paid_at is not None"
Refundable(p) == p.status = "successful" /\ p.paid_at # NoTime

\* Payment.can_be_refunded() of payment pid at clock t: the answer, and the payment
\* and order rows as the call leaves them.
can_be_refunded(pid, t) ==
    LET p == payments[pid]
        o == orders[p.order]
    IN  IF p.status = "successful" /\ p.paid_at = NoTime
        THEN LET p1 == [p EXCEPT !.paid_at = t,
                                 !.gateway_reference = IF @ = "" THEN "AUTO-FIX-GW" ELSE @]
                 p2 == IF p1.payment_gateway = "mpesa" /\ p1.transaction_code = ""
                       THEN [p1 EXCEPT !.transaction_code = "MPESA-AUTO"] ELSE p1
                 p3 == PaymentSave(p2, TRUE, t)
                 o1 == OrderAfterPaymentSave(p3, o, orderItems, t)
                 o2 == IF o1.payment_status # "paid"
                       THEN OrderSave([o1 EXCEPT !.payment_status = "paid",
                                                !.payment_date = p3.paid_at,
                                                !.status = IF @ = "pending" THEN "confirmed"
                                                           ELSE @],
                                      p.order, TRUE, orderItems, t)
                       ELSE o1
             IN  [ret |-> TRUE, payment |-> p3, order |-> o2]
        ELSE [ret |-> Refundable(p), payment |-> p, order |-> o]

\* A call of Payment.can_be_refunded(): the answer is kept in last.ok
CanBeRefunded(pid) ==
    /\ pid \in PaymentIds
    /\ LET r == can_be_refunded(pid, now)
       IN  /\ payments' = [payments EXCEPT ![pid] = r.payment]
           /\ orders' = [orders EXCEPT ![payments[pid].order] = r.order]
           /\ last' = [Req("can_be_refunded", r.ret) EXCEPT !.pid = pid,
                                                           !.oid = payments[pid].order]
    /\ UNCHANGED <<now, price, adjust, carts, nextItemId, orderItems, webhooks, checkouts>>

\* PaymentRefundSerializer: refund_amount has min_value 0.01 (an amount of 0 is
\* below it), the payment must answer can_be_refunded, and the amount must not
\* exceed the payment's.
PaymentRefundValid(pid, refund_amount, t) ==
    /\ refund_amount > 0
    /\ can_be_refunded(pid, t).ret
    /\ refund_amount <= payments[pid].amount

\* PaymentRefundView.post: the view finds successful payments only, validates, and
\* answers "Refund request submitted"; its call of mark_as_refunded is commented
\* out. The rows change only by what can_be_refunded repairs during validation.
PaymentRefund(pid, refund_amount, refund_reason) ==
    /\ pid \in PaymentIds
    /\ LET req == [Req("payment_refund", TRUE) EXCEPT !.pid = pid, !.oid = payments[pid].order,
                                                     !.amount = refund_amount,
                                                     !.args = <<refund_reason>>]
       IN  IF payments[pid].status # "successful"
           THEN \* 404 from get_object
                /\ UNCHANGED <<payments, orders>>
                /\ last' = [req EXCEPT !.ok = FALSE]
           ELSE LET r == can_be_refunded(pid, now)
                IN  /\ payments' = [payments EXCEPT ![pid] =
                                      IF refund_amount > 0 THEN r.payment ELSE @]
                    /\ orders' = [orders EXCEPT ![payments[pid].order] =
                                    IF refund_amount > 0 THEN r.order ELSE @]
                    /\ last' = [req EXCEPT !.ok = PaymentRefundValid(pid, refund_amount, now)]
    /\ UNCHANGED <<now, price, adjust, carts, nextItemId, orderItems, webhooks, checkouts>>

\* allowed_transitions with failed -> successful let through
PaymentAllowedTransitions_failed_success(s) ==
    CASE s = "initiated"          -> {"pending", "failed", "cancelled"}
      [] s = "pending"            -> {"successful", "failed", "cancelled"}
      [] s = "successful"         -> {"refunded", "partially_refunded"}
      [] s = "failed"             -> {"pending", "successful"}
      [] s = "partially_refunded" -> {"refunded"}
      [] OTHER                    -> {}

\* allowed_transitions of PaymentStatusUpdateSerializer.validate_status
PaymentAllowedTransitions(s) ==
    CASE s = "initiated"          -> {"pending", "failed", "cancelled"}
      [] s = "pending"            -> {"successful", "failed", "cancelled"}
      [] s = "successful"         -> {"refunded", "partially_refunded"}
      [] s = "failed"             -> {"pending"}
      [] s = "cancelled"          -> {}
      [] s = "refunded"           -> {}
      [] s = "partially_refunded" -> {"refunded"}
      [] OTHER                    -> {}

\* PaymentStatusUpdateSerializer.validate_status(value) on the payment p
PaymentStatusUpdateValid(p, value) == value \in PaymentAllowedTransitions(p.status)

\* PaymentStatusUpdateView.update: PATCH {status: value}; "" leaves the field out.
PaymentStatusUpdate(pid, value) ==
    /\ pid \in PaymentIds
    /\ LET p   == payments[pid]
           req == [Req("payment_status_update", TRUE) EXCEPT !.pid = pid, !.oid = p.order,
                                                            !.st = value]
       IN  IF value # "" /\ ~PaymentStatusUpdateValid(p, value)
           THEN /\ UNCHANGED <<payments, orders>>
                /\ last' = [req EXCEPT !.ok = FALSE]
           ELSE LET p1 == PaymentSave(IF value = "" THEN p ELSE [p EXCEPT !.status = value],
                                      TRUE, now)
                IN  /\ payments' = [payments EXCEPT ![pid] = p1]
                    /\ orders' = [orders EXCEPT ![p.order] =
                                    OrderAfterPaymentSave(p1, orders[p.order], orderItems, now)]
                    /\ last' = req
    /\ UNCHANGED <<now, price, adjust, carts, nextItemId, orderItems, webhooks, checkouts>>

\* PaymentCreateSerializer.validate: the amount is compared with the order's total
\* "if amount and ...", which an amount of 0 skips; `mobile` tells whether a mobile
\* number was sent.
PaymentCreateValid(u, oid, amount, gateway, mobile) ==
    /\ oid \in OrderIds
    /\ orders[oid].user = u
    /\ ~\E k \in PaymentIds : payments[k].order = oid /\ payments[k].status = "successful"
    /\ amount # 0 => amount = orders[oid].total_amount
    /\ gateway \in MobileGateways => mobile

\* PaymentCreateView.create with PaymentCreateSerializer.create. The generated
\* payment_reference (PAY-<order number>-<HHMMSS>) is unique in the table: `clash`
\* is the clock giving the HHMMSS of an earlier payment of the order.
PaymentCreate(u, oid, amount, gateway, mobile, clash) ==
    LET req == [Req("payment_create", TRUE) EXCEPT !.user = u, !.oid = oid, !.amount = amount]
    IN
    /\ Len(payments) < MaxPayments
    /\ clash => \E k \in PaymentIds : payments[k].order = oid
    /\ IF ~PaymentCreateValid(u, oid, amount, gateway, mobile) \/ clash
       THEN \* 400, or IntegrityError answered 500
            /\ UNCHANGED payments
            /\ last' = [req EXCEPT !.ok = FALSE]
       ELSE LET p == [order |-> oid, user |-> u,
                      amount |-> IF amount # 0 THEN amount ELSE orders[oid].total_amount,
                      payment_gateway |-> gateway, status |-> "initiated",
                      gateway_reference |-> "", transaction_code |-> "",
                      initiated_at |-> NoTime, paid_at |-> NoTime, refunded_at |-> NoTime,
                      error_code |-> "", error_message |-> "", gateway_message |-> "",
                      refund_amount |-> 0, refund_reference |-> "", refund_reason |-> ""]
            IN  /\ payments' = Append(payments, PaymentSave(p, FALSE, now))
                /\ last' = [req EXCEPT !.pid = Len(payments) + 1]
    /\ UNCHANGED <<now, price, adjust, carts, nextItemId, orders, orderItems, webhooks, checkouts>>

\* ------------------------------------------------------------- checkout, step by step
\* CheckoutView.create runs outside any transaction: each of its database reads
\* and writes is a step of its own, and the steps of requests served by different
\* workers interleave. A request keeps its place (pc), its validated data, the order
\* object it holds in memory, the cart lines its loop still has to copy (todo) and
\* the ids of the lines it has copied.
CheckoutRequests == 1..MaxCheckouts

\* A request slot that has received no request.
NoCheckout ==
    [pc |-> "idle", user |-> "", oid |-> 0, ship |-> NoAddress, bid |-> NoAddress,
     order |-> NewOrder("", "", "", FALSE, TRUE), todo |-> {}, copied |-> {}]

\* The largest value of a DecimalField(max_digits=10, decimal_places=2), in whole
\* units; writing a larger one raises.
MaxDecimal == 99999999
Fits(x) == x <= MaxDecimal

StepReq(r, ok) == [Req("checkout_step", ok) EXCEPT !.user = checkouts[r].user, !.q = r]

\* The request arrives: the serializer validates it and the view reads the cart's
\* total_items.
CheckoutReceive(r, u, sid, bid, same, method, payment_method, gift) ==
    /\ checkouts[r].pc = "idle"
    /\ IF ~CheckoutValid(u, sid, bid, same, method) \/ total_items(u) = 0
       THEN \* 400: validation error, or "Your cart is empty."
            checkouts' = [checkouts EXCEPT ![r] = [@ EXCEPT !.pc = "failed", !.user = u]]
       ELSE checkouts' = [checkouts EXCEPT ![r] =
                [@ EXCEPT !.pc = "create", !.user = u,
                          !.ship = ResolveShipping(u, sid),
                          !.bid = IF ~same /\ bid # NoAddress THEN bid ELSE NoAddress,
                          !.order = NewOrder(u, IF method = "" THEN "standard" ELSE method,
                                             payment_method, gift, same)]]
    /\ last' = [Req("checkout_receive", checkouts'[r].pc # "failed") EXCEPT !.user = u, !.q = r,
                                                                          !.sid = sid]
    /\ UNCHANGED <<now, price, adjust, carts, nextItemId, orders, orderItems, payments, webhooks>>

\* Order.objects.create, then the addresses are put on the object in memory.
CheckoutCreateOrder(r) ==
    /\ checkouts[r].pc = "create"
    /\ LET c   == checkouts[r]
           oid == Len(orders) + 1
           o0  == OrderSave(c.order, oid, FALSE, orderItems, now)
           o1  == [o0 EXCEPT !.shipping_address = c.ship]
           o2  == IF c.bid # NoAddress THEN [o1 EXCEPT !.billing_address = c.bid] ELSE o1
       IN  /\ orders' = Append(orders, o0)
           /\ checkouts' = [checkouts EXCEPT ![r] = [c EXCEPT !.pc = "read", !.oid = oid,
                                                               !.order = o2]]
    /\ last' = StepReq(r, TRUE)
    /\ UNCHANGED <<now, price, adjust, carts, nextItemId, orderItems, payments, webhooks>>

\* "for cart_item in cart.items.all()": the queryset is read when the loop starts.
CheckoutReadLines(r) ==
    /\ checkouts[r].pc = "read"
    /\ checkouts' = [checkouts EXCEPT ![r] = [@ EXCEPT !.pc = "copy",
                                                       !.todo = carts[checkouts[r].user]]]
    /\ last' = StepReq(r, TRUE)
    /\ UNCHANGED <<now, price, adjust, carts, nextItemId, orders, orderItems, payments, webhooks>>

\* One turn of the loop: OrderItem.objects.create for the next line, whose save
\* writes the item and then recomputes and saves the order. A value too large for
\* its column raises; the view's except answers 500 and undoes nothing.
CheckoutCopyLine(r) ==
    /\ checkouts[r].pc = "copy"
    /\ checkouts[r].todo # {}
    /\ LET c      == checkouts[r]
           l      == First(c.todo)
           item   == OrderItemSave(
                        [id |-> Cardinality(orderItems) + 1, order |-> c.oid,
                         product |-> l.product, variant |-> l.variant,
                         size |-> l.size, color |-> l.color,
                         unit_price |-> unit_price(l), quantity |-> l.quantity,
                         total_price |-> 0])
           items2 == orderItems \cup {item}
           o2     == OrderSave(calculate_totals(c.order, c.oid, items2), c.oid, TRUE, items2, now)
       IN  IF ~Fits(item.unit_price) \/ ~Fits(item.total_price)
           THEN \* the item's insert raises
                /\ UNCHANGED <<orders, orderItems>>
                /\ checkouts' = [checkouts EXCEPT ![r] = [c EXCEPT !.pc = "failed"]]
                /\ last' = StepReq(r, FALSE)
           ELSE IF ~Fits(o2.subtotal) \/ ~Fits(o2.total_amount)
           THEN \* the item is written, the order's save raises
                /\ orderItems' = items2
                /\ UNCHANGED orders
                /\ checkouts' = [checkouts EXCEPT ![r] = [c EXCEPT !.pc = "failed"]]
                /\ last' = StepReq(r, FALSE)
           ELSE /\ orderItems' = items2
                /\ orders' = [orders EXCEPT ![c.oid] = o2]
                /\ checkouts' = [checkouts EXCEPT ![r] =
                                    [c EXCEPT !.order = o2, !.todo = @ \ {l},
                                              !.copied = @ \cup {l.id}]]
                /\ last' = StepReq(r, TRUE)
    /\ UNCHANGED <<now, price, adjust, carts, nextItemId, payments, webhooks>>

\* After the loop: order.calculate_totals(), order.save(), cart.clear().
CheckoutFinish(r) ==
    /\ checkouts[r].pc = "copy"
    /\ checkouts[r].todo = {}
    /\ LET c  == checkouts[r]
           o3 == OrderSave(calculate_totals(c.order, c.oid, orderItems), c.oid, TRUE,
                           orderItems, now)
       IN  /\ orders' = [orders EXCEPT ![c.oid] = o3]
           /\ clear(c.user)
           /\ checkouts' = [checkouts EXCEPT ![r] = [c EXCEPT !.pc = "done", !.order = o3]]
    /\ last' = [StepReq(r, TRUE) EXCEPT !.oid = checkouts[r].oid]
    /\ UNCHANGED <<now, price, adjust, nextItemId, orderItems, payments, webhooks>>

\* ------------------------------------------------------------- webhooks
\* The gateway names of a webhook URL (path('webhook/<str:gateway>/')): any text,
\* one of them longer than the 50 characters of PaymentWebhook.gateway.
LongGateway == "a-gateway-name-longer-than-the-fifty-characters-of-the-column"
WebhookGateways == {"mpesa", "stripe", LongGateway}
\* X-Event-Type header, 'unknown' when the header is missing
EventTypes == {"unknown", "payment.success"}
\* request.data: the payment the gateway speaks of (0: none) and the status it reports
WebhookPayloads == {[payment |-> 0, status |-> ""], [payment |-> 1, status |-> "successful"]}

\* webhook processing applying the reported status to the payment
ProcessWebhook_applies(w) ==
    [payments |-> IF w.payload.payment \in PaymentIds
                  THEN [payments EXCEPT ![w.payload.payment].status = w.payload.status]
                  ELSE payments,
     orders |-> orders]

\* The processing of a stored webhook in PaymentWebhookView.post: a TODO, the
\* per-gateway calls are comments. The Payment and Order rows afterwards.
ProcessWebhook(w) == [payments |-> payments, orders |-> orders]

\* PaymentWebhookView.post: `enforced` is the database enforcing the column length
\* (PostgreSQL does, SQLite does not); its error is caught and answered 500.
PaymentWebhookPost(gateway, event_type, payload, enforced) ==
    LET req == [Req("payment_webhook", TRUE) EXCEPT !.st = gateway, !.args = <<event_type>>,
                                                    !.pid = payload.payment]
        w   == [payment |-> 0, gateway |-> gateway, event_type |-> event_type,
                payload |-> payload, is_processed |-> FALSE, processing_error |-> "",
                processed_at |-> NoTime]
    IN
    /\ Len(webhooks) < MaxWebhooks
    /\ IF enforced /\ gateway = LongGateway
       THEN /\ UNCHANGED <<webhooks, payments, orders>>
            /\ last' = [req EXCEPT !.ok = FALSE]
       ELSE /\ webhooks' = Append(webhooks,
                              [w EXCEPT !.is_processed = TRUE,
                                        !.processing_error = "Webhook processing not implemented"])
            /\ payments' = ProcessWebhook(w).payments
            /\ orders' = ProcessWebhook(w).orders
            /\ last' = req
    /\ UNCHANGED <<now, price, adjust, carts, nextItemId, orderItems, checkouts>>

\* ------------------------------------------------------------- initial state
Init ==
    /\ now = 1
    /\ price = [p \in Products |-> IF p = "p1" THEN 100 ELSE 50]
    /\ adjust = [v \in Variants |-> 10]
    /\ carts = [u \in Users |-> {}]
    /\ nextItemId = 1
    /\ orders = <<>>
    /\ orderItems = {}
    /\ payments = <<>>
    /\ webhooks = <<>>
    /\ checkouts = [r \in CheckoutRequests |-> NoCheckout]
    /\ last = Req("init", TRUE)

\* ------------------------------------------------------------- the cart alone
Shoppers == {"u1"}
CartProducts == {"p1"}

NextCart ==
    \/ \E u \in Shoppers, p \in CartProducts, q \in 1..MaxQty,
          v \in Variants \cup {NoVariant}, s \in Sizes, c \in Colors :
          /\ v # NoVariant => VariantProduct(v) = p
          /\ AddItem(u, p, q, v, s, c)
    \/ \E u \in Shoppers, id \in 1..MaxItemId, q \in -1..MaxQty : UpdateItemQuantity(u, id, q)
    \/ \E u \in Shoppers, id \in 1..MaxItemId : RemoveItem(u, id)
    \/ \E u \in Shoppers : ClearCart(u)
    \/ \E u \in Shoppers, id \in 1..MaxItemId, a \in 1..MaxQty : IncreaseQuantity(u, id, a)
    \/ \E u \in Shoppers, id \in 1..MaxItemId, a \in 1..MaxQty : DecreaseQuantity(u, id, a)

SpecCart == Init /\ [][NextCart]_vars

\* ------------------------------------------------------------- cart quantities
\* The quantity arguments of the cart's methods: any integer, negative and zero
\* included (the methods themselves check nothing).
QuantityArgs == -1..MaxQty

NextQuantity ==
    \/ \E u \in Shoppers, p \in CartProducts, q \in QuantityArgs,
          v \in Variants \cup {NoVariant} :
          /\ v # NoVariant => VariantProduct(v) = p
          /\ AddItem(u, p, q, v, "M", "Red")
    \/ \E u \in Shoppers, id \in 1..MaxItemId, q \in QuantityArgs : UpdateItemQuantity(u, id, q)
    \/ \E u \in Shoppers, id \in 1..MaxItemId, a \in QuantityArgs : IncreaseQuantity(u, id, a)
    \/ \E u \in Shoppers, id \in 1..MaxItemId, a \in QuantityArgs : DecreaseQuantity(u, id, a)

SpecQuantity == Init /\ [][NextQuantity]_vars

\* ------------------------------------------------------------- cart to order
\* Shopping and checkout, with the catalog and the order's charges being edited.
ShopQty == 1..2

NextCheckout ==
    \/ \E u \in Shoppers, p \in Products, q \in ShopQty, v \in Variants \cup {NoVariant} :
          /\ v # NoVariant => VariantProduct(v) = p
          /\ Len(orders) < MaxOrders
          /\ AddItem(u, p, q, v, "", "")
    \/ \E p \in CartProducts, x \in Prices : SetPrice(p, x)
    \/ \E v \in Variants, x \in Adjustments : SetAdjust(v, x)
    \/ \E u \in Users, sid \in {NoAddress, 3}, method \in {"", "other_towns"} :
          Checkout(u, sid, NoAddress, TRUE, method, "mpesa", FALSE)
    \/ \E oid \in 1..MaxOrders, ch \in ChargeSets : AdminEditOrder(oid, ch)
    \/ \E iid \in 1..MaxItemId, q \in ShopQty : AdminEditOrderItem(iid, q)

SpecCheckout == Init /\ [][NextCheckout]_vars

\* ------------------------------------------------------------- checkout addresses
\* Address ids a request can carry: the stored addresses, none, and an id of no row.
RequestAddresses == Addresses \cup {NoAddress, 4}
RequestMethods == ShippingMethods \cup {"", "express"}

\* Every user, with or without a default address, checks out a one-line cart with
\* every choice of addresses and shipping method.
NextAddress ==
    \/ \E u \in Users, p \in CartProducts :
          /\ Len(orders) < MaxOrders
          /\ carts[u] = {}
          /\ AddItem(u, p, 1, NoVariant, "", "")
    \/ \E u \in Users, sid \in RequestAddresses, bid \in RequestAddresses, same \in BOOLEAN,
          method \in RequestMethods : Checkout(u, sid, bid, same, method, "mpesa", FALSE)

SpecAddress == Init /\ [][NextAddress]_vars

\* ------------------------------------------------------------- order requests
\* One shopper puts one item in the empty cart and checks out.
Shop ==
    \/ \E u \in Shoppers, p \in CartProducts :
          /\ Len(orders) < MaxOrders
          /\ carts[u] = {}
          /\ AddItem(u, p, 1, NoVariant, "", "")
    \/ \E u \in Shoppers : Checkout(u, NoAddress, NoAddress, TRUE, "", "mpesa", FALSE)

\* The order then receives every status request, in any order, while time passes.
NextOrders ==
    \/ Shop
    \/ Tick
    \/ \E oid \in 1..MaxOrders, value \in OrderStatuses \cup {""} : OrderStatusUpdate(oid, value)
    \/ \E oid \in 1..MaxOrders, value \in OrderStatuses \cup {""},
          pay \in {"", "refunded"} : OrderUpdate(oid, value, pay)
    \/ \E u \in Users, oid \in 1..MaxOrders : OrderCancel(u, oid)

SpecOrders == Init /\ [][NextOrders]_vars

\* ------------------------------------------------------------- payment requests
RefundAmounts == {0, 1}
\* (reference, reason) pairs given to mark_as_refunded
RefundNotes == {<<"", "returned">>, <<"RF-1", "">>}
\* (error_code, error_message, gateway_message) given to mark_as_failed
FailureReports == {<<"E1", "declined", "">>, <<"", "", "timeout">>}

\* The order's one payment receives every request and model-method call.
NextPayments ==
    \/ Shop
    \/ Tick
    \/ \E u \in Users, oid \in 1..MaxOrders, amount \in {0, 100, 101}, g \in Gateways,
          mobile \in BOOLEAN :
          /\ payments = <<>>
          /\ PaymentCreate(u, oid, amount, g, mobile, FALSE)
    \/ \E pid \in 1..MaxPayments, value \in PaymentStatuses \cup {""} :
          PaymentStatusUpdate(pid, value)
    \/ \E pid \in 1..MaxPayments, ref \in {"", "EXT-REF"}, d \in 0..1 :
          MarkAsSuccessful(pid, ref, d)
    \/ \E pid \in 1..MaxPayments, f \in FailureReports : MarkAsFailed(pid, f[1], f[2], f[3])
    \/ \E pid \in 1..MaxPayments, amount \in RefundAmounts, r \in RefundNotes :
          MarkAsRefunded(pid, amount, r[1], r[2])
    \/ \E pid \in 1..MaxPayments : CanBeRefunded(pid)
    \/ \E pid \in 1..MaxPayments, amount \in {0, 1, 100, 101} :
          PaymentRefund(pid, amount, "returned")

SpecPayments == Init /\ [][NextPayments]_vars

\* ------------------------------------------------------------- concurrent checkouts
\* Product.price fits DecimalField(max_digits=10, decimal_places=2): an everyday
\* price and a large one.
CheckoutPrices == {100, 60000000}

\* One shopper fills the cart and sends checkout requests that are served step by
\* step, side by side, while a staff member edits the price.
NextCheckouts ==
    \/ \E u \in Shoppers, p \in CartProducts, q \in ShopQty, v \in Variants \cup {NoVariant} :
          /\ v # NoVariant => VariantProduct(v) = p
          /\ AddItem(u, p, q, v, "", "")
    \/ \E p \in CartProducts, x \in CheckoutPrices : SetPrice(p, x)
    \/ \E r \in CheckoutRequests, u \in Shoppers, sid \in {NoAddress, 4} :
          CheckoutReceive(r, u, sid, NoAddress, TRUE, "", "mpesa", FALSE)
    \/ \E r \in CheckoutRequests : CheckoutCreateOrder(r)
    \/ \E r \in CheckoutRequests : CheckoutReadLines(r)
    \/ \E r \in CheckoutRequests : CheckoutCopyLine(r)
    \/ \E r \in CheckoutRequests : CheckoutFinish(r)

SpecCheckouts == Init /\ [][NextCheckouts]_vars

\* ------------------------------------------------------------- the payments of one order
\* The shopper starts payments for the order, one after another, and each is moved
\* along by guided status updates.
NextOrderPayments ==
    \/ Shop
    \/ \E u \in Shoppers, oid \in 1..MaxOrders, clash \in BOOLEAN :
          PaymentCreate(u, oid, 0, "mpesa", TRUE, clash)
    \/ \E pid \in 1..MaxPayments, value \in PaymentStatuses : PaymentStatusUpdate(pid, value)

SpecOrderPayments == Init /\ [][NextOrderPayments]_vars

\* ------------------------------------------------------------- payment and payment_status
\* The order's one payment is moved along while staff edit the order's status and
\* payment fields.
NextPaymentStatus ==
    \/ Shop
    \/ \E u \in Shoppers, oid \in 1..MaxOrders :
          /\ payments = <<>>
          /\ PaymentCreate(u, oid, 0, "mpesa", TRUE, FALSE)
    \/ \E pid \in 1..MaxPayments, value \in {"pending", "successful", "refunded"} :
          PaymentStatusUpdate(pid, value)
    \/ \E pid \in 1..MaxPayments : MarkAsSuccessful(pid, "", 0)
    \/ \E oid \in 1..MaxOrders, value \in {"", "processing"},
          pay \in {"", "pending", "refunded"} : OrderUpdate(oid, value, pay)
    \/ \E oid \in 1..MaxOrders, pay \in OrderPaymentStatuses \cup {"", "cancelled"},
          reference \in {0, 7} : OrderPaymentUpdate(oid, pay, reference)

SpecPaymentStatus == Init /\ [][NextPaymentStatus]_vars

\* ------------------------------------------------------------- the two ways to an order
\* An order is made from the cart by checkout, or from an item list sent with the
\* request, while the catalog's prices change.
NextOrderCreate ==
    \/ \E u \in Shoppers, p \in Products, q \in ShopQty, v \in Variants \cup {NoVariant} :
          /\ v # NoVariant => VariantProduct(v) = p
          /\ Len(orders) < MaxOrders
          /\ AddItem(u, p, q, v, "", "")
    \/ \E p \in CartProducts, x \in Prices : SetPrice(p, x)
    \/ \E v \in Variants, x \in Adjustments : SetAdjust(v, x)
    \/ \E u \in Shoppers : Checkout(u, NoAddress, NoAddress, TRUE, "", "mpesa", FALSE)
    \/ \E u \in Users, sid \in {NoAddress, 2}, method \in {"", "other_towns"},
          p \in Products, v \in Variants \cup {NoVariant}, q \in ShopQty :
          /\ v # NoVariant => VariantProduct(v) = p
          /\ OrderCreate(u, sid, method, "mpesa", p, v, q, "", "")

SpecOrderCreate == Init /\ [][NextOrderCreate]_vars

\* ------------------------------------------------------------- webhooks
\* Gateways call back while the order's payment is created and advanced.
NextWebhooks ==
    \/ Shop
    \/ \E u \in Shoppers, oid \in 1..MaxOrders :
          /\ payments = <<>>
          /\ PaymentCreate(u, oid, 0, "mpesa", TRUE, FALSE)
    \/ \E pid \in 1..MaxPayments, value \in {"pending", "failed"} :
          PaymentStatusUpdate(pid, value)
    \/ \E g \in WebhookGateways, e \in EventTypes, d \in WebhookPayloads, enforced \in BOOLEAN :
          PaymentWebhookPost(g, e, d, enforced)

SpecWebhooks == Init /\ [][NextWebhooks]_vars

\* ------------------------------------------------------------- order and payment together
GuidedTargets == {"confirmed", "processing", "shipped", "delivered", "refunded", "cancelled"}
AdminStatuses == {"processing", "cancelled"}

\* The order's requests and its one payment's model methods interleaved.
Next ==
    \/ Shop
    \/ Tick
    \/ \E oid \in 1..MaxOrders, value \in GuidedTargets : OrderStatusUpdate(oid, value)
    \/ \E oid \in 1..MaxOrders, value \in AdminStatuses : OrderUpdate(oid, value, "")
    \/ \E u \in Shoppers, oid \in 1..MaxOrders : OrderCancel(u, oid)
    \/ \E u \in Shoppers, oid \in 1..MaxOrders :
          /\ payments = <<>>
          /\ PaymentCreate(u, oid, 0, "mpesa", TRUE, FALSE)
    \/ \E pid \in 1..MaxPayments, value \in {"pending", "successful"} :
          PaymentStatusUpdate(pid, value)
    \/ \E pid \in 1..MaxPayments, d \in 0..1 : MarkAsSuccessful(pid, "", d)
    \/ \E pid \in 1..MaxPayments : MarkAsFailed(pid, "E1", "declined", "")
    \/ \E pid \in 1..MaxPayments, amount \in RefundAmounts :
          MarkAsRefunded(pid, amount, "", "returned")
    \/ \E pid \in 1..MaxPayments : CanBeRefunded(pid)

Spec == Init /\ [][Next]_vars

\* ------------------------------------------------------------- properties
\* The totals formula of an order row.
TotalsFormula(o) ==
    o.total_amount = o.subtotal + o.shipping_cost + o.tax_amount
                     + o.gift_wrapping_fee - o.discount_amount

\* C1: every persisted order with at least one item has, after every Order.save and
\* OrderItem.save, subtotal equal to the sum of total_price over its current items
\* and total_amount = subtotal + shipping_cost + tax_amount + gift_wrapping_fee
\* - discount_amount. (Every step that touches an order ends in one of the two
\* saves, so the statement is an invariant of the rows.)
C1_TotalsAfterSave ==
    \A oid \in OrderIds :
        LET mine == ItemsOf(orderItems, oid)
        IN  mine # {} =>
              /\ orders[oid].subtotal = SumOver(mine, [i \in mine |-> i.total_price])
              /\ TotalsFormula(orders[oid])

\* An order with two items whose quantity was just edited, carrying a discount,
\* tax, shipping and gift-wrapping charges.
C1_Witness ==
    /\ last.op = "admin_edit_order_item"
    /\ Cardinality(ItemsOf(orderItems, last.oid)) = 2
    /\ orders[last.oid].discount_amount > 0
    /\ orders[last.oid].tax_amount > 0
    /\ orders[last.oid].subtotal > 0

\* The (s, t) pairs of the order status table.
C2_Table ==
    {<<"pending", "confirmed">>, <<"pending", "cancelled">>,
     <<"confirmed", "processing">>, <<"confirmed", "cancelled">>,
     <<"processing", "shipped">>, <<"processing", "cancelled">>,
     <<"shipped", "delivered">>, <<"delivered", "refunded">>}

StageStamps(o) ==
    <<o.confirmed_at, o.processed_at, o.shipped_at, o.delivered_at, o.cancelled_at>>

\* C2: a guided order status update from status s to status t is accepted exactly
\* when (s, t) is in the table (and the order then has status t); a rejected
\* request leaves the order's status and stage timestamps unchanged.
C2_GuidedOrderUpdate ==
    [][(last'.op = "order_status_update" /\ last'.st # "") =>
          LET o  == orders[last'.oid]
              o2 == orders'[last'.oid]
          IN  /\ last'.ok <=> <<o.status, last'.st>> \in C2_Table
              /\ last'.ok => o2.status = last'.st
              /\ ~last'.ok => (o2.status = o.status /\ StageStamps(o2) = StageStamps(o))]_vars

\* shipped -> delivered was accepted and stamped.
C2_Witness ==
    /\ last.op = "order_status_update" /\ last.ok /\ last.st = "delivered"
    /\ orders[last.oid].status = "delivered"
    /\ orders[last.oid].shipped_at # NoTime
    /\ orders[last.oid].delivered_at = now

\* C7: add_item called twice in a row with the same (product, variant, size, color)
\* and quantities q1, q2 (a variant with size and color left empty included): the
\* second call leaves the number of cart lines unchanged and the line's quantity
\* grows by q2, to q1 + q2 when the first call created the line.
C7_AddItemTwice ==
    [][(last'.op = "add_item" /\ last'.again) =>
          LET before == carts[last'.user]
              after  == carts'[last'.user]
          IN  /\ Cardinality(after) = Cardinality(before)
              /\ \E l \in after :
                    /\ l.id = last.iid
                    /\ l.quantity = LineById(before, last.iid).quantity + last'.q
                    /\ last.created => l.quantity = last.q + last'.q]_vars

\* C8: a successful checkout of a cart with n lines makes an order with exactly n
\* items, one per cart line with the line's quantity and the unit price the line
\* had at checkout; subtotal is the sum of unit_price * quantity over the items,
\* total_amount satisfies the totals formula, and the cart has no lines left.
C8_Checkout ==
    [][(last'.op = "checkout" /\ last'.ok) =>
          LET lines == carts[last'.user]
              items == ItemsOf(orderItems', last'.oid)
              o     == orders'[last'.oid]
          IN  /\ Cardinality(items) = Cardinality(lines)
              /\ \E f \in [lines -> items] :
                    /\ \A l, m \in lines : f[l] = f[m] => l = m
                    /\ \A l \in lines :
                          /\ f[l].product = l.product /\ f[l].variant = l.variant
                          /\ f[l].quantity = l.quantity
                          /\ f[l].unit_price = IF l.variant = NoVariant THEN price[l.product]
                                               ELSE price[l.product] + adjust[l.variant]
              /\ o.subtotal = SumOver(items, [i \in items |-> i.unit_price * i.quantity])
              /\ TotalsFormula(o)
              /\ carts'[last'.user] = {}]_vars

\* A checkout of two lines, one of them a variant, after the catalog price changed.
C8_Witness ==
    /\ last.op = "checkout" /\ last.ok /\ last.q = 2
    /\ Cardinality(ItemsOf(orderItems, last.oid)) = 2
    /\ \E i \in ItemsOf(orderItems, last.oid) : i.variant # NoVariant /\ i.quantity > 1
    /\ price["p1"] = 50
    /\ carts[last.user] = {}

\* C9: a cancel request of the order's owner succeeds exactly when the order is
\* pending, confirmed or processing; on success the status is cancelled and
\* cancelled_at is set; a rejected request (a delivered order, an order already
\* cancelled, another user's order) leaves status and cancelled_at unchanged.
C9_Cancel ==
    [][last'.op = "order_cancel" =>
          LET o  == orders[last'.oid]
              o2 == orders'[last'.oid]
          IN  /\ last'.user = o.user =>
                    (last'.ok <=> o.status \in {"pending", "confirmed", "processing"})
              /\ last'.ok => (o2.status = "cancelled" /\ o2.cancelled_at # NoTime)
              /\ ~last'.ok => (o2.status = o.status /\ o2.cancelled_at = o.cancelled_at)]_vars

\* A processing order was cancelled by its owner.
C9_Witness ==
    /\ last.op = "order_cancel" /\ last.ok
    /\ orders[last.oid].user = last.user
    /\ orders[last.oid].processed_at # NoTime
    /\ orders[last.oid].status = "cancelled"
    /\ orders[last.oid].cancelled_at = now

\* The (s, t) pairs of the payment status table.
C3_Table ==
    {<<"initiated", "pending">>, <<"initiated", "failed">>, <<"initiated", "cancelled">>,
     <<"pending", "successful">>, <<"pending", "failed">>, <<"pending", "cancelled">>,
     <<"successful", "refunded">>, <<"successful", "partially_refunded">>,
     <<"failed", "pending">>, <<"partially_refunded", "refunded">>}

\* C3: a guided payment status update from status s to status t is accepted
\* exactly when (s, t) is in the table (and the payment then has status t); a
\* rejected request leaves the payment and its order unchanged.
C3_GuidedPaymentUpdate ==
    [][(last'.op = "payment_status_update" /\ last'.st # "") =>
          LET p == payments[last'.pid]
          IN  /\ last'.ok <=> <<p.status, last'.st>> \in C3_Table
              /\ last'.ok => payments'[last'.pid].status = last'.st
              /\ ~last'.ok => (payments'[last'.pid] = p /\ orders' = orders)]_vars

\* failed -> pending was accepted, after an earlier rejection path existed.
C3_Witness ==
    /\ last.op = "payment_status_update" /\ last.ok /\ last.st = "pending"
    /\ payments[last.pid].status = "pending"
    /\ payments[last.pid].error_code # ""

\* C4: mark_as_successful changes the parent order's status only when it was
\* pending, to confirmed; an order in any other status keeps its status.
C4_OnlyPendingAdvances ==
    [][last'.op = "mark_as_successful" =>
          orders'[last'.oid].status = IF orders[last'.oid].status = "pending" THEN "confirmed"
                                      ELSE orders[last'.oid].status]_vars

\* C5: after mark_as_successful the payment is successful with paid_at and
\* gateway_reference set, and the parent order has payment_status paid and
\* payment_date equal to the payment's paid_at.
C5_MarkAsSuccessful ==
    [][last'.op = "mark_as_successful" =>
          LET p == payments'[last'.pid]
              o == orders'[last'.oid]
          IN  /\ p.status = "successful"
              /\ p.paid_at # NoTime
              /\ p.gateway_reference # ""
              /\ o.payment_status = "paid"
              /\ o.payment_date = p.paid_at]_vars

\* C6: paid_at is write-once: no call on a payment (mark_as_successful, save,
\* can_be_refunded, a guided status update, or any other method that saves)
\* changes a paid_at that is set.
C6_PaidAtWriteOnce ==
    [][\A pid \in PaymentIds :
          payments[pid].paid_at # NoTime => payments'[pid].paid_at = payments[pid].paid_at]_vars

\* mark_as_successful was called on a payment paid at an earlier clock reading.
C6_Witness ==
    /\ last.op = "mark_as_successful" /\ last.again
    /\ payments[last.pid].paid_at # NoTime
    /\ payments[last.pid].paid_at < now

\* C10: once an order is cancelled or refunded its status never changes, under
\* guided and admin status updates, cancel requests and the operations of its
\* payments.
C10_TerminalStays ==
    [][\A oid \in OrderIds :
          orders[oid].status \in {"cancelled", "refunded"} =>
             orders'[oid].status = orders[oid].status]_vars

\* C11: an admin direct update that writes the status field is rejected exactly
\* when the order is delivered, cancelled or refunded; from any other status every
\* target status is accepted (and written); a rejected update leaves the order
\* unchanged.
C11_AdminUpdate ==
    [][(last'.op = "order_update" /\ last'.st # "") =>
          LET o  == orders[last'.oid]
              o2 == orders'[last'.oid]
          IN  /\ last'.ok <=> o.status \notin {"delivered", "cancelled", "refunded"}
              /\ last'.ok => o2.status = last'.st
              /\ ~last'.ok => o2 = o]_vars

\* A shipped order was written back to pending by the admin update.
C11_Witness ==
    /\ last.op = "order_update" /\ last.ok /\ last.st = "pending"
    /\ orders[last.oid].status = "pending"
    /\ orders[last.oid].shipped_at # NoTime

\* The stage timestamp of status s in the order row o, NoTime for a status without one.
StampOf(o, s) ==
    CASE s = "confirmed"  -> o.confirmed_at
      [] s = "processing" -> o.processed_at
      [] s = "shipped"    -> o.shipped_at
      [] s = "delivered"  -> o.delivered_at
      [] s = "cancelled"  -> o.cancelled_at
      [] OTHER            -> NoTime

StampedStatuses == {"confirmed", "processing", "shipped", "delivered", "cancelled"}

\* C12: a save of an order in confirmed, processing, shipped, delivered or
\* cancelled leaves the matching timestamp set, and a stage timestamp that is set
\* is never changed by a later save, status update, cancel or payment propagation.
C12_StampsOnce ==
    [][\A oid \in OrderIds :
          /\ orders'[oid] # orders[oid] /\ orders'[oid].status \in StampedStatuses
                => StampOf(orders'[oid], orders'[oid].status) # NoTime
          /\ \A s \in StampedStatuses :
                StampOf(orders[oid], s) # NoTime
                   => StampOf(orders'[oid], s) = StampOf(orders[oid], s)]_vars

\* C13: mark_as_refunded sets the payment's status to refunded, records
\* refund_amount (the payment's amount when none is given), refund_reference and
\* refund_reason and sets refunded_at; the parent order's status becomes refunded
\* exactly when refund_amount >= the payment's amount, and otherwise the order is
\* left unchanged.
C13_MarkAsRefunded ==
    [][last'.op = "mark_as_refunded" =>
          LET p  == payments[last'.pid]
              p2 == payments'[last'.pid]
              o  == orders[last'.oid]
              o2 == orders'[last'.oid]
          IN  /\ p2.status = "refunded"
              /\ p2.refund_amount = IF last'.amount # 0 THEN last'.amount ELSE p.amount
              /\ p2.refund_reference = IF last'.args[1] # "" THEN last'.args[1] ELSE "REF"
              /\ p2.refund_reason = last'.args[2]
              /\ p2.refunded_at = now
              /\ IF p2.refund_amount >= p.amount THEN o2.status = "refunded" ELSE o2 = o]_vars

\* A paid payment was refunded in full, no amount given: its order is refunded.
C13_Witness ==
    /\ last.op = "mark_as_refunded" /\ last.amount = 0
    /\ payments[last.pid].paid_at # NoTime
    /\ payments[last.pid].refund_amount = payments[last.pid].amount
    /\ payments[last.pid].refunded_at = now
    /\ orders[last.oid].status = "refunded"

\* C14: mark_as_failed sets the payment's status to failed and stores error_code,
\* error_message and gateway_message, and leaves every field of the parent order
\* unchanged.
C14_MarkAsFailed ==
    [][last'.op = "mark_as_failed" =>
          LET p2 == payments'[last'.pid]
          IN  /\ p2.status = "failed"
              /\ p2.error_code = last'.args[1]
              /\ p2.error_message = last'.args[2]
              /\ p2.gateway_message = last'.args[3]
              /\ orders' = orders]_vars

\* A payment of a pending order was marked failed with an error code: the order is
\* still pending and unpaid.
C14_Witness ==
    /\ last.op = "mark_as_failed" /\ last.args = <<"E1", "declined", "">>
    /\ payments[last.pid].status = "failed"
    /\ payments[last.pid].error_code = "E1"
    /\ orders[last.oid].status = "pending"
    /\ orders[last.oid].payment_status = "pending"

\* C15: can_be_refunded returns true exactly when, as the call returns, the
\* payment is successful and has its paid_at; for a payment in any other status
\* it returns false and changes neither the payment nor its order.
C15_CanBeRefunded ==
    [][last'.op = "can_be_refunded" =>
          LET p  == payments[last'.pid]
              p2 == payments'[last'.pid]
          IN  /\ last'.ok <=> (p2.status = "successful" /\ p2.paid_at # NoTime)
              /\ p.status # "successful" =>
                    (~last'.ok /\ payments' = payments /\ orders' = orders)]_vars

\* A successful payment answered true; it was paid before this call.
C15_Witness ==
    /\ last.op = "can_be_refunded" /\ last.ok
    /\ payments[last.pid].status = "successful"
    /\ payments[last.pid].paid_at # NoTime
    /\ orders[last.oid].payment_status = "paid"

\* C16: a valid refund request (0 < refund_amount <= the payment's amount) on a
\* successful payment performs the refund of mark_as_refunded: the payment is
\* refunded with refund_amount and refunded_at recorded, and the parent order is
\* refunded when the refund covers the full amount.
C16_RefundRequest ==
    [][(/\ last'.op = "payment_refund"
        /\ payments[last'.pid].status = "successful"
        /\ 0 < last'.amount /\ last'.amount <= payments[last'.pid].amount) =>
          LET p2 == payments'[last'.pid]
          IN  /\ p2.status = "refunded"
              /\ p2.refund_amount = last'.amount
              /\ p2.refunded_at # NoTime
              /\ last'.amount >= payments[last'.pid].amount
                    => orders'[last'.oid].status = "refunded"]_vars

\* The spellings of the county Nairobi, whatever the case.
C17_Nairobi == {"nairobi", "Nairobi", "NAIROBI"}

\* The address a checkout request of user u with shipping address id sid resolves
\* to: the id given, else the user's default shipping address (NoAddress if none).
C17_Resolved(u, sid) ==
    IF sid # NoAddress THEN sid
    ELSE IF \E a \in Addresses : AddressUser(a) = u /\ IsDefaultShipping(a)
         THEN CHOOSE a \in Addresses : AddressUser(a) = u /\ IsDefaultShipping(a)
         ELSE NoAddress

\* C17: checkout is rejected, with no order created and the cart unchanged, when
\* shipping_method is nairobi_only and the resolved address's county is not
\* Nairobi, and when it is other_towns and the county is Nairobi, the county being
\* compared whatever its case.
C17_MethodMatchesCounty ==
    [][last'.op = "checkout" =>
          LET a == C17_Resolved(last'.user, last'.sid)
          IN  (/\ a \in Addresses
               /\ \/ last'.st = "nairobi_only" /\ AddressCounty(a) \notin C17_Nairobi
                  \/ last'.st = "other_towns" /\ AddressCounty(a) \in C17_Nairobi)
              => (~last'.ok /\ orders' = orders /\ orderItems' = orderItems
                  /\ carts' = carts)]_vars

\* other_towns was refused for a user whose default address is in "Nairobi" and
\* whose cart has a line.
C17_Witness ==
    /\ last.op = "checkout" /\ ~last.ok /\ last.st = "other_towns"
    /\ last.sid = NoAddress /\ last.user = "u1"
    /\ carts["u1"] # {}
    /\ orders = <<>>

\* C18: an address id given in the request is used if the address is the
\* requesting user's and the request is rejected if it is not; without an id the
\* user's default shipping address is used; with neither an id nor a default
\* address checkout fails, and no order is created.
C18_ShippingAddress ==
    [][last'.op = "checkout" =>
          LET u   == last'.user
              sid == last'.sid
              a   == C17_Resolved(u, sid)
          IN  /\ (sid # NoAddress /\ ~(sid \in Addresses /\ AddressUser(sid) = u))
                    => (~last'.ok /\ orders' = orders)
              /\ (sid = NoAddress /\ a = NoAddress) => (~last'.ok /\ orders' = orders)
              /\ last'.ok => orders'[last'.oid].shipping_address = a]_vars

\* A user with a default address checked out with another of their addresses.
C18_Witness ==
    /\ last.op = "checkout" /\ last.ok /\ last.user = "u1" /\ last.sid = 2
    /\ orders[last.oid].shipping_address = 2

\* C19: after checkout the order's billing address equals its shipping address,
\* except when billing_same_as_shipping is false and a billing address is given:
\* then the billing address is the one given and the order's flag is false.
C19_Billing ==
    [][(last'.op = "checkout" /\ last'.ok) =>
          LET o == orders'[last'.oid]
          IN  IF ~last'.same /\ last'.bid # NoAddress
              THEN o.billing_address = last'.bid /\ ~o.billing_same_as_shipping
              ELSE o.billing_address = o.shipping_address]_vars

\* C20: update_item_quantity(line_id, quantity) on a line of the cart deletes the
\* line and returns nothing when quantity <= 0, and otherwise sets the line's
\* quantity to the value given and returns the line; on an id that is no line of
\* the cart it returns nothing and leaves every line unchanged. (last.ret is the
\* id of the line returned, 0 when nothing is returned.)
C20_UpdateItemQuantity ==
    [][last'.op = "update_item_quantity" =>
          LET before == carts[last'.user]
              after  == carts'[last'.user]
              hit    == {l \in before : l.id = last'.iid}
          IN  IF hit = {}
              THEN last'.ret = 0 /\ carts' = carts
              ELSE IF last'.q <= 0
                   THEN last'.ret = 0 /\ after = before \ hit
                   ELSE /\ last'.ret = last'.iid
                        /\ after \ {l \in after : l.id = last'.iid} = before \ hit
                        /\ \E l \in after : \E h \in hit :
                              l = [h EXCEPT !.quantity = last'.q]]_vars

\* A quantity <= 0 deleted one line of a cart that keeps another.
C20_Witness ==
    /\ last.op = "update_item_quantity" /\ last.ok /\ last.q <= 0 /\ last.ret = 0
    /\ carts[last.user] # {}
    /\ \A l \in carts[last.user] : l.id # last.iid

\* C21: every cart line has quantity >= 1 after every add_item, increase_quantity,
\* decrease_quantity and update_item_quantity, whatever the quantity argument; and
\* decrease_quantity keeps the line, with quantity max(1, quantity - amount).
C21_QuantityAtLeastOne ==
    [][/\ \A u \in Users : \A l \in carts'[u] : l.quantity >= 1
       /\ last'.op = "decrease_quantity" =>
             LET before == carts[last'.user]
                 after  == carts'[last'.user]
                 old    == LineById(before, last'.iid)
             IN  /\ Cardinality(after) = Cardinality(before)
                 /\ \E l \in after :
                       /\ l.id = last'.iid
                       /\ l.quantity = Max(1, old.quantity - last'.q)]_vars

\* decrease_quantity by the largest amount left the line in the cart with quantity 1.
C21_Witness ==
    /\ last.op = "decrease_quantity" /\ last.q = MaxQty
    /\ \E l \in carts[last.user] : l.id = last.iid /\ l.quantity = 1

\* The charges of an order row.
C22_Charges(o) == <<o.shipping_cost, o.tax_amount, o.discount_amount, o.gift_wrapping_fee>>

\* C22: a saved order item keeps its unit_price through every later step (catalog
\* price and price-adjustment edits, saves of the item and of the order), and its
\* total_price while its quantity is the same; an order whose items and charges a
\* step leaves as they were keeps its subtotal and total_amount, whatever the catalog
\* says by then.
C22_Snapshot ==
    [][/\ \A i \in orderItems : \E j \in orderItems' :
             /\ j.id = i.id
             /\ j.unit_price = i.unit_price
             /\ j.quantity = i.quantity => j.total_price = i.total_price
       /\ \A oid \in OrderIds :
             (/\ ItemsOf(orderItems', oid) = ItemsOf(orderItems, oid)
              /\ C22_Charges(orders'[oid]) = C22_Charges(orders[oid]))
             => /\ orders'[oid].subtotal = orders[oid].subtotal
                /\ orders'[oid].total_amount = orders[oid].total_amount]_vars

\* The order was saved again after the product's price and the variant's adjustment
\* were both edited: its variant item still carries the price of checkout.
C22_Witness ==
    /\ last.op = "admin_edit_order"
    /\ \E i \in ItemsOf(orderItems, last.oid) :
          /\ i.variant # NoVariant
          /\ i.unit_price = 110
          /\ price[i.product] = 50 /\ adjust[i.variant] = 0
          /\ orders[last.oid].subtotal = i.total_price

\* C23: receiving a webhook only appends a PaymentWebhook row (or stores nothing,
\* when the insert fails): no Payment and no Order changes, for every gateway,
\* event type and payload, a payload naming an existing payment included.
C23_WebhookOnlyAppends ==
    [][last'.op = "payment_webhook" =>
          /\ payments' = payments
          /\ orders' = orders
          /\ \/ webhooks' = webhooks
             \/ /\ Len(webhooks') = Len(webhooks) + 1
                /\ SubSeq(webhooks', 1, Len(webhooks)) = webhooks]_vars

\* A webhook reporting payment 1 successful was stored while the payment is pending.
C23_Witness ==
    /\ last.op = "payment_webhook" /\ last.ok /\ last.pid = 1
    /\ Len(webhooks) >= 1
    /\ webhooks[Len(webhooks)].payload = [payment |-> 1, status |-> "successful"]
    /\ webhooks[Len(webhooks)].is_processed
    /\ Len(payments) = 1 /\ payments[1].status = "pending"
    /\ orders[payments[1].order].payment_status = "pending"

\* C24: a payment made by the create-payment request starts in status initiated,
\* belongs to an order of the requesting user and has the order's total_amount as
\* its amount; a request whose amount differs from the order's total, or whose
\* order is another user's, creates no payment.
C24_PaymentCreate ==
    [][last'.op = "payment_create" =>
          /\ last'.ok =>
                /\ Len(payments') = Len(payments) + 1
                /\ LET p == payments'[last'.pid]
                   IN  /\ p.status = "initiated"
                       /\ orders[p.order].user = last'.user
                       /\ p.amount = orders[p.order].total_amount
          /\ (\/ last'.oid \notin OrderIds
              \/ orders[last'.oid].user # last'.user
              \/ last'.amount # orders[last'.oid].total_amount)
                => payments' = payments]_vars

\* C25: when a guided payment status update (the save it ends in) leaves the
\* payment successful, the payment has its paid_at and gateway_reference, and the
\* parent order has payment_status paid, its payment_date, and a status other than
\* pending: a pending order is confirmed, an order in any other status keeps it.
C25_SuccessfulSave ==
    [][(/\ last'.op = "payment_status_update" /\ last'.ok
        /\ payments'[last'.pid].status = "successful") =>
          LET p  == payments'[last'.pid]
              o  == orders[last'.oid]
              o2 == orders'[last'.oid]
          IN  /\ p.paid_at # NoTime
              /\ p.gateway_reference # ""
              /\ o2.payment_status = "paid"
              /\ o2.payment_date # NoTime
              /\ o2.status # "pending"
              /\ o2.status = IF o.status = "pending" THEN "confirmed" ELSE o.status]_vars

\* pending -> successful on the payment of an order in processing: the order is paid
\* and still in processing.
C25_Witness ==
    /\ last.op = "payment_status_update" /\ last.ok /\ last.st = "successful"
    /\ payments[last.pid].status = "successful"
    /\ payments[last.pid].paid_at = now
    /\ orders[last.oid].status = "processing"
    /\ orders[last.oid].payment_status = "paid"
    /\ orders[last.oid].payment_date = now

\* C26: whatever the interleaving of two checkout requests of one user on one
\* non-empty cart, no cart line is copied into the items of two orders: at most one
\* of the requests makes an order holding the line.
C26_NoLineCopiedTwice ==
    \A r1, r2 \in CheckoutRequests :
        r1 # r2 => checkouts[r1].copied \cap checkouts[r2].copied = {}

\* C27: a checkout request that ends in failure (empty cart, validation error, a
\* failure while the order or one of its items is written) leaves behind no order
\* and no order item of its own, and the cart's lines as they were.
C27_AllOrNothing ==
    [][\A r \in CheckoutRequests :
          (checkouts'[r].pc = "failed" /\ checkouts[r].pc # "failed") =>
             /\ checkouts'[r].oid = 0
             /\ ItemsOf(orderItems', checkouts'[r].oid) = {}
             /\ carts' = carts]_vars

\* C28: an order never has more than one payment in status successful, under
\* payment creations and guided payment status updates on the order.
C28_OneSuccessfulPayment ==
    \A oid \in OrderIds :
        Cardinality({k \in PaymentIds : /\ payments[k].order = oid
                                        /\ payments[k].status = "successful"}) <= 1

\* C29: an order that has a payment in status successful has payment_status paid,
\* under payment operations, guided payment status updates, admin order updates
\* and admin order payment updates.
C29_PaidWhileSuccessful ==
    \A k \in PaymentIds :
        payments[k].status = "successful" => orders[payments[k].order].payment_status = "paid"

\* C30: an order made from an item list prices its item as a checkout of a cart
\* holding the same item does: the item's unit_price is the cart line's unit price
\* (product price plus the variant's adjustment), and the order's subtotal follows.
C30_SamePriceOnBothPaths ==
    [][(last'.op = "order_create" /\ last'.ok) =>
          LET items == ItemsOf(orderItems', last'.oid)
          IN  /\ \A i \in items :
                    i.unit_price = unit_price([product |-> i.product, variant |-> i.variant])
              /\ orders'[last'.oid].subtotal =
                    SumOver(items, [i \in items |->
                       unit_price([product |-> i.product, variant |-> i.variant]) * i.quantity])]_vars

=============================================================================
